---- MODULE Spec2Model ----
(***************************************************************************)
(* Loan application demo (script.js): the form page (index.html), the      *)
(* confirmation page (confirm.html) with its OTP challenge, and the pure   *)
(* functions they share.                                                   *)
(*                                                                         *)
(* JavaScript strings are sequences of one-character strings, so that      *)
(* trim, split, toUpperCase, the regular expressions and the number to     *)
(* words conversion are computed character by character.                   *)
(***************************************************************************)
EXTENDS Integers, Sequences, FiniteSets, TLC

(***************************************************************************)
(* Characters and the String methods the script uses                       *)
(***************************************************************************)

\* the characters \s matches, among those the inputs below use
Whitespace == {" ", "\t"}

DigitChars == <<"0","1","2","3","4","5","6","7","8","9">>

UpperChars ==
  <<"A","B","C","D","E","F","G","H","I","J","K","L","M",
    "N","O","P","Q","R","S","T","U","V","W","X","Y","Z">>

LowerChars ==
  <<"a","b","c","d","e","f","g","h","i","j","k","l","m",
    "n","o","p","q","r","s","t","u","v","w","x","y","z">>

Range(f) == {f[i] : i \in DOMAIN f}

DigitSet == Range(DigitChars)
UpperSet == Range(UpperChars)
LowerSet == Range(LowerChars)

\* \d
IsDigit(c) == c \in DigitSet

\* [A-Z]
IsUpper(c) == c \in UpperSet

\* [A-Za-z]
IsLetter(c) == c \in UpperSet \/ c \in LowerSet

\* \s
IsSpace(c) == c \in Whitespace

\* String.prototype.trim: strip leading and trailing whitespace
RECURSIVE TrimLeft(_)
TrimLeft(s) ==
  IF s = << >> THEN << >>
  ELSE IF IsSpace(Head(s)) THEN TrimLeft(Tail(s)) ELSE s

RECURSIVE TrimRight(_)
TrimRight(s) ==
  IF s = << >> THEN << >>
  ELSE IF IsSpace(s[Len(s)]) THEN TrimRight(SubSeq(s, 1, Len(s) - 1)) ELSE s

Trim(s) == TrimRight(TrimLeft(s))

\* String.prototype.toUpperCase on the characters above
UpperOf(c) ==
  IF c \in LowerSet
  THEN UpperChars[CHOOSE i \in DOMAIN LowerChars : LowerChars[i] = c]
  ELSE c

ToUpperCase(s) == [i \in DOMAIN s |-> UpperOf(s[i])]

\* s.split(/\s+/): the pieces between the maximal runs of whitespace; a
\* leading or trailing run leaves an empty piece, and "" splits into [""]
RECURSIVE SplitFrom(_, _)
SplitFrom(s, cur) ==
  IF s = << >> THEN << cur >>
  ELSE IF IsSpace(Head(s))
       THEN << cur >> \o SplitFrom(TrimLeft(s), << >>)
       ELSE SplitFrom(Tail(s), Append(cur, Head(s)))

SplitWhitespace(s) == SplitFrom(s, << >>)

\* s.replace(/\D/g, ''): drop every character that is not a digit
RECURSIVE StripNonDigits(_)
StripNonDigits(s) ==
  IF s = << >> THEN << >>
  ELSE IF IsDigit(Head(s)) THEN << Head(s) >> \o StripNonDigits(Tail(s))
       ELSE StripNonDigits(Tail(s))

DigitValue(c) == (CHOOSE i \in DOMAIN DigitChars : DigitChars[i] = c) - 1

\* parseInt(val, 10) of a string of digits
RECURSIVE ParseInt(_)
ParseInt(s) ==
  IF s = << >> THEN 0
  ELSE 10 * ParseInt(SubSeq(s, 1, Len(s) - 1)) + DigitValue(s[Len(s)])

\* Number.prototype.toString of a non-negative integer
RECURSIVE NumToString(_)
NumToString(n) ==
  IF n < 10 THEN << DigitChars[n + 1] >>
  ELSE NumToString(n \div 10) \o << DigitChars[(n % 10) + 1] >>

(***************************************************************************)
(* Validators                                                              *)
(***************************************************************************)

\* [^\s@]
IsEmailChar(c) == ~IsSpace(c) /\ c # "@"

AllEmailChars(s, from, to) ==
  /\ from <= to
  /\ \A k \in from..to : IsEmailChar(s[k])

\* the pattern with [^\s] as its last class: /^[^\s@]+@[^\s@]+\.[^\s]+$/
isValidEmailAnyTail(email) ==
  \E i \in DOMAIN email : \E j \in DOMAIN email :
    /\ i < j
    /\ email[i] = "@"
    /\ email[j] = "."
    /\ AllEmailChars(email, 1, i - 1)
    /\ AllEmailChars(email, i + 1, j - 1)
    /\ j + 1 <= Len(email)
    /\ \A k \in (j + 1)..Len(email) : ~IsSpace(email[k])

\* /^[^\s@]+@[^\s@]+\.[^\s@]+$/
isValidEmail(email) ==
  \E i \in DOMAIN email : \E j \in DOMAIN email :
    /\ i < j
    /\ email[i] = "@"
    /\ email[j] = "."
    /\ AllEmailChars(email, 1, i - 1)
    /\ AllEmailChars(email, i + 1, j - 1)
    /\ AllEmailChars(email, j + 1, Len(email))

\* the pattern without its end anchor: /^[A-Z]{5}\d{4}[A-Z]/
isValidPANUnanchored(pan) ==
  /\ Len(pan) >= 10
  /\ \A k \in 1..5 : IsUpper(pan[k])
  /\ \A k \in 6..9 : IsDigit(pan[k])
  /\ IsUpper(pan[10])

\* /^[A-Z]{5}\d{4}[A-Z]$/
isValidPAN(pan) ==
  /\ Len(pan) = 10
  /\ \A k \in 1..5 : IsUpper(pan[k])
  /\ \A k \in 6..9 : IsDigit(pan[k])
  /\ IsUpper(pan[10])

\* the last test written as part.length >= 3
isValidFullNameMinThree(name) ==
  IF ~(name # << >> /\ \A k \in DOMAIN name : IsLetter(name[k]) \/ IsSpace(name[k]))
  THEN FALSE
  ELSE LET parts == SplitWhitespace(Trim(name))
       IN  IF Len(parts) < 2 THEN FALSE
           ELSE \A k \in DOMAIN parts : Len(parts[k]) >= 3

isValidFullName(name) ==
  IF ~(name # << >> /\ \A k \in DOMAIN name : IsLetter(name[k]) \/ IsSpace(name[k]))
  THEN FALSE
  ELSE LET parts == SplitWhitespace(Trim(name))
       IN  IF Len(parts) < 2 THEN FALSE
           ELSE \A k \in DOMAIN parts : Len(parts[k]) >= 4

\* the length test written as amountStr.length < 9
isValidAmountBelowNine(amountStr) ==
  IF ~(amountStr # << >> /\ \A k \in DOMAIN amountStr : IsDigit(amountStr[k]))
  THEN FALSE
  ELSE Len(amountStr) < 9

isValidAmount(amountStr) ==
  IF ~(amountStr # << >> /\ \A k \in DOMAIN amountStr : IsDigit(amountStr[k]))
  THEN FALSE
  ELSE Len(amountStr) <= 9

(***************************************************************************)
(* numberToWordsIndian                                                     *)
(***************************************************************************)

ones ==
  << << >>,
     <<"O","n","e">>,
     <<"T","w","o">>,
     <<"T","h","r","e","e">>,
     <<"F","o","u","r">>,
     <<"F","i","v","e">>,
     <<"S","i","x">>,
     <<"S","e","v","e","n">>,
     <<"E","i","g","h","t">>,
     <<"N","i","n","e">>,
     <<"T","e","n">>,
     <<"E","l","e","v","e","n">>,
     <<"T","w","e","l","v","e">>,
     <<"T","h","i","r","t","e","e","n">>,
     <<"F","o","u","r","t","e","e","n">>,
     <<"F","i","f","t","e","e","n">>,
     <<"S","i","x","t","e","e","n">>,
     <<"S","e","v","e","n","t","e","e","n">>,
     <<"E","i","g","h","t","e","e","n">>,
     <<"N","i","n","e","t","e","e","n">> >>

tens ==
  << << >>,
     << >>,
     <<"T","w","e","n","t","y">>,
     <<"T","h","i","r","t","y">>,
     <<"F","o","r","t","y">>,
     <<"F","i","f","t","y">>,
     <<"S","i","x","t","y">>,
     <<"S","e","v","e","n","t","y">>,
     <<"E","i","g","h","t","y">>,
     <<"N","i","n","e","t","y">> >>

ZeroRupees == <<"Z","e","r","o"," ","R","u","p","e","e","s">>
MinusSp == <<"M","i","n","u","s"," ">>
SpHundred == <<" ","H","u","n","d","r","e","d">>
SpCrore == <<" ","C","r","o","r","e">>
SpLakh == <<" ","L","a","k","h">>
SpThousand == <<" ","T","h","o","u","s","a","n","d">>
SpRupees == <<" ","R","u","p","e","e","s">>

\* the separator forgotten: always ''
SepNever(res) == << >>

\* the separator (result ? ' ' : '')
SepAfter(res) == IF res # << >> THEN << " " >> ELSE << >>

\* ones[] and tens[] are indexed from 0
twoDigitToWords(n) ==
  IF n < 20 THEN ones[n + 1]
  ELSE LET tenPart == n \div 10
           onePart == n % 10
       IN  tens[tenPart + 1]
             \o (IF onePart # 0 THEN << " " >> \o ones[onePart + 1] ELSE << >>)

threeDigitToWords(n) ==
  LET hundred == n \div 100
      rest == n % 100
      res1 == IF hundred # 0 THEN ones[hundred + 1] \o SpHundred ELSE << >>
  IN  IF rest # 0 THEN res1 \o SepAfter(res1) \o twoDigitToWords(rest) ELSE res1

\* the body for num > 0 with the period left out of the return statement
WordsOfPositiveNoPeriod(num) ==
  LET crore == num \div 10000000
      num1 == num % 10000000
      lakh == num1 \div 100000
      num2 == num1 % 100000
      thousand == num2 \div 1000
      hundreds == num2 % 1000
      r1 == IF crore # 0 THEN threeDigitToWords(crore) \o SpCrore ELSE << >>
      r2 == IF lakh # 0
            THEN r1 \o SepAfter(r1) \o threeDigitToWords(lakh) \o SpLakh ELSE r1
      r3 == IF thousand # 0
            THEN r2 \o SepAfter(r2) \o threeDigitToWords(thousand) \o SpThousand
            ELSE r2
      r4 == IF hundreds # 0
            THEN r3 \o SepAfter(r3) \o threeDigitToWords(hundreds) ELSE r3
  IN  Trim(r4 \o SpRupees)

\* the body of numberToWordsIndian for num > 0
WordsOfPositive(num) ==
  LET crore == num \div 10000000
      num1 == num % 10000000
      lakh == num1 \div 100000
      num2 == num1 % 100000
      thousand == num2 \div 1000
      hundreds == num2 % 1000
      r1 == IF crore # 0 THEN threeDigitToWords(crore) \o SpCrore ELSE << >>
      r2 == IF lakh # 0
            THEN r1 \o SepAfter(r1) \o threeDigitToWords(lakh) \o SpLakh ELSE r1
      r3 == IF thousand # 0
            THEN r2 \o SepAfter(r2) \o threeDigitToWords(thousand) \o SpThousand
            ELSE r2
      r4 == IF hundreds # 0
            THEN r3 \o SepAfter(r3) \o threeDigitToWords(hundreds) ELSE r3
  IN  Trim(r4 \o SpRupees) \o << "." >>

RECURSIVE numberToWordsIndian(_)
numberToWordsIndian(num) ==
  IF num = 0 THEN ZeroRupees
  ELSE IF num < 0 THEN MinusSp \o numberToWordsIndian(-num)
  ELSE WordsOfPositive(num)

(***************************************************************************)
(* calculateEMI                                                            *)
(*                                                                         *)
(* The amounts the formula passes through do not fit a machine word, so    *)
(* they are natural numbers kept as sequences of base-10000 limbs, lowest  *)
(* limb first, the empty sequence being zero.  The rate is given in tenths *)
(* of a percent (8.5 is 85), so that r = tenths / 12000 and                *)
(* (1 + r)^n = (12000 + tenths)^n / 12000^n, and the result is in paise,   *)
(* rounded down.  The double-precision evaluation differs from the exact   *)
(* quotient by a relative error below 10^-12, far less than one paisa on   *)
(* the amounts used here.                                                  *)
(***************************************************************************)

RECURSIVE BigOf(_)
BigOf(n) == IF n = 0 THEN << >> ELSE << n % 10000 >> \o BigOf(n \div 10000)

\* drop the zero limbs at the high end
BigStrip(a) ==
  LET nonZero == {k \in DOMAIN a : a[k] # 0}
  IN  IF nonZero = {} THEN << >>
      ELSE SubSeq(a, 1, CHOOSE k \in nonZero : \A j \in nonZero : j <= k)

BigPad(a, len) == a \o [i \in 1..(len - Len(a)) |-> 0]

BigLess(a, b) ==
  IF Len(a) # Len(b) THEN Len(a) < Len(b)
  ELSE \E k \in DOMAIN a :
         /\ a[k] < b[k]
         /\ \A j \in (k + 1)..Len(a) : a[j] = b[j]

\* the carry out of limb i of the limb-wise sums s of two numbers: the
\* nearest limb at or below i that does not pass a carry on makes one or not
CarryOut(s, i) ==
  IF i = 0 THEN 0
  ELSE IF s[i] # 9999 THEN (IF s[i] >= 10000 THEN 1 ELSE 0)
  ELSE IF \E j \in 1..i : /\ s[j] >= 10000
                          /\ \A k \in (j + 1)..i : s[k] = 9999
       THEN 1 ELSE 0

BigAdd(a, b) ==
  LET len == IF Len(a) > Len(b) THEN Len(a) ELSE Len(b)
      x == BigPad(a, len)
      y == BigPad(b, len)
      s == [i \in 1..len |-> x[i] + y[i]]
  IN  BigStrip([i \in 1..(len + 1) |->
                  IF i <= len THEN (s[i] + CarryOut(s, i - 1)) % 10000
                  ELSE CarryOut(s, len)])

\* the borrow out of limb i of a - y: the nearest limb at or below i where
\* the two differ decides
BorrowOut(a, y, i) ==
  IF i = 0 THEN 0
  ELSE IF a[i] # y[i] THEN (IF a[i] < y[i] THEN 1 ELSE 0)
  ELSE IF \E j \in 1..i : /\ a[j] < y[j]
                          /\ \A k \in (j + 1)..i : a[k] = y[k]
       THEN 1 ELSE 0

\* a - b for a >= b
BigSub(a, b) ==
  LET y == BigPad(b, Len(a))
  IN  BigStrip([i \in DOMAIN a |->
                  (a[i] - y[i] - BorrowOut(a, y, i - 1) + 10000) % 10000])

\* the sum over i in lo..hi of the low (part = 0) or high (part = 1) half
\* of the limb product a[i] * b[k + 1 - i], which falls on limb k
RECURSIVE SumProducts(_, _, _, _, _, _)
SumProducts(a, b, k, lo, hi, part) ==
  IF lo > hi THEN 0
  ELSE IF lo = hi
       THEN IF part = 0 THEN (a[lo] * b[k + 1 - lo]) % 10000
            ELSE (a[lo] * b[k + 1 - lo]) \div 10000
       ELSE LET mid == (lo + hi) \div 2
            IN  SumProducts(a, b, k, lo, mid, part)
                  + SumProducts(a, b, k, mid + 1, hi, part)

\* what falls on limb k of a * b before carrying: the low halves of the
\* products of limb k and the high halves of those of limb k - 1
Column(a, b, k) ==
  LET from(c) == IF c + 1 - Len(b) > 1 THEN c + 1 - Len(b) ELSE 1
      to(c) == IF c < Len(a) THEN c ELSE Len(a)
  IN  SumProducts(a, b, k, from(k), to(k), 0)
        + SumProducts(a, b, k - 1, from(k - 1), to(k - 1), 1)

\* a * b
BigTimes(a, b) ==
  IF a = << >> \/ b = << >> THEN << >>
  ELSE LET col == [k \in 1..(Len(a) + Len(b)) |-> Column(a, b, k)]
       IN  BigAdd([k \in DOMAIN col |-> col[k] % 10000],
                  << 0 >> \o [k \in DOMAIN col |-> col[k] \div 10000])

\* a * m for any natural m
BigMul(a, m) == BigTimes(a, BigOf(m))

\* Math.pow(base, n) for a natural base, by repeated squaring
RECURSIVE BigPow(_, _)
BigPow(base, n) ==
  IF n = 0 THEN << 1 >>
  ELSE LET half == BigPow(base, n \div 2)
           square == BigTimes(half, half)
       IN  IF n % 2 = 1 THEN BigTimes(square, BigOf(base)) ELSE square

\* the quotient and the remainder of a by d, for d > 0
RECURSIVE BigDivMod(_, _)
BigDivMod(a, d) ==
  IF BigLess(a, d) THEN << 0, a >>
  ELSE LET h == BigDivMod(a, BigMul(d, 10))
           digit == CHOOSE c \in 0..9 :
                      /\ ~BigLess(h[2], BigMul(d, c))
                      /\ BigLess(h[2], BigMul(d, c + 1))
       IN  << 10 * h[1] + digit, BigSub(h[2], BigMul(d, digit)) >>

\* the defaults of calculateEMI: annualRate = 8.5 in tenths, tenureYears
DefaultRateTenths == 85
DefaultTenureYears == 15

\* the denominator written without its "- 1"
calculateEMINoMinusOne(P, annualRateTenths, tenureYears) ==
  LET n == tenureYears * 12
  IN  IF annualRateTenths = 0
      THEN (P \div n) * 100 + ((P % n) * 100) \div n
      ELSE LET pow == BigPow(12000 + annualRateTenths, n)
               numerator == BigMul(BigMul(pow, 100 * annualRateTenths), P)
               denominator == BigMul(pow, 12000)
           IN  BigDivMod(numerator, denominator)[1]

\* P * r * (1 + r)^n / ((1 + r)^n - 1), in paise: both powers are taken
\* over 12000^n, which cancels between numerator and denominator
calculateEMI(P, annualRateTenths, tenureYears) ==
  LET n == tenureYears * 12
  IN  IF annualRateTenths = 0
      THEN (P \div n) * 100 + ((P % n) * 100) \div n
      ELSE LET pow == BigPow(12000 + annualRateTenths, n)
               numerator == BigMul(BigMul(pow, 100 * annualRateTenths), P)
               denominator ==
                 BigMul(BigSub(pow, BigPow(12000, n)), 12000)
           IN  BigDivMod(numerator, denominator)[1]

\* Math.round of an amount in paise, in rupees
MathRound(paise) == (paise + 50) \div 100

(***************************************************************************)
(* Bounds and the inputs the user can supply                               *)
(***************************************************************************)

\* Math.random() is sampled at k / RandDen, k = 0 .. RandDen - 1
RandDen == 2

\* validate clicks modelled per load of the confirmation page
MaxClicks == 4

\* Math.random() samples <<numerator, denominator>> in [0, 1), the largest
\* one among them
RandomSamples == {<<k, RandDen>> : k \in 0..(RandDen - 1)} \cup {<<8999, 9000>>}

NamePadded == <<" "," ","M","a","r","y"," "," "," ","J","o","n","e","s"," ">>
NameJoAnn == <<"J","o"," ","A","n","n">>
NameJohnSmith == <<"J","o","h","n"," ","S","m","i","t","h">>
EmailPadded == <<" ","a","@","b",".","c","o"," ">>
EmailNoDot == <<"a","@","b","c","o">>
PanLower == <<"a","b","c","d","e","1","2","3","4","f">>
PanShort == <<"A","B","C","D","1","2","3","4","F">>
AmtComma == <<"5","0",",","0","0","0">>
AmtTen == <<"1","2","3","4","5","6","7","8","9","0">>
AmtZero == <<"0">>

NameInputs == {NamePadded, NameJoAnn, NameJohnSmith}
EmailInputs == {EmailPadded, EmailNoDot}
PanInputs == {PanLower, PanShort}
AmountInputs == {AmtComma, AmtTen, AmtZero, << >>}

(***************************************************************************)
(* State                                                                   *)
(***************************************************************************)

VARIABLES
  page,            \* the document loaded: "index", "confirm" or "external"
  href,            \* the last window.location.href the script assigned
  store,           \* sessionStorage: key -> string, for the keys that are set
  fullNameEl,      \* index.html: the four input values
  emailEl,
  panEl,
  loanAmountEl,
  nameError,       \* index.html: textContent of the message elements
  emailError,
  panError,
  amountError,
  amountWords,
  emiInfo,
  messageBlock,    \* confirm.html: elements
  otpBlockDisplay,
  otpInput,
  otpError,
  attemptsLeft,
  resultClass,
  resultText,
  otp,             \* confirm.html: closure variables of the page script
  attempts,
  listener,        \* the click listener on validateBtn is installed
  timers,          \* pending setTimeout callbacks, as their targets, in order
  wrongGuesses,    \* history: well-formed incorrect submissions of this load
  replaced,        \* history: what the latest load of confirm.html replaced
  fnName,          \* a direct call of one of the pure functions: its name,
  fnArg,           \* its argument
  fnResult         \* and what it returned

indexVars ==
  <<fullNameEl, emailEl, panEl, loanAmountEl,
    nameError, emailError, panError, amountError, amountWords, emiInfo>>

confirmVars ==
  <<messageBlock, otpBlockDisplay, otpInput, otpError, attemptsLeft,
    resultClass, resultText, otp, attempts, listener, timers, wrongGuesses,
    replaced>>

fnVars == <<fnName, fnArg, fnResult>>

vars == <<page, href, store, indexVars, confirmVars, fnVars>>

maxAttempts == 3

HomeUrl == "https://pixel6.co/"
NotFoundUrl == "https://pixel6.co/404"
ConfirmUrl == "confirm.html"

NameMsg == "Enter at least two words, alphabets & spaces only, each >=4 chars."
EmailMsg == "Enter a valid email address."
PanMsg == "PAN must be in format ABCDE1234F (uppercase)."
AmountSubmitMsg == "Loan amount must be numeric and up to 9 digits."
AmountInputMsg == "Enter numeric amount up to 9 digits."
OtpFormatMsg == "Enter the 4-digit code sent to your email."
OtpIncorrectMsg == "Incorrect code. Please try again."
SuccessText == "Validation Successful!"
FailText == "Validation Failed!"
SuccessClass == "result-block result-success"
FailClass == "result-block result-fail"

(***************************************************************************)
(* sessionStorage                                                          *)
(***************************************************************************)

EmptyStore == [k \in {} |-> << >>]

setItem(st, key, value) ==
  [k \in DOMAIN st \cup {key} |-> IF k = key THEN value ELSE st[k]]

\* sessionStorage.getItem(key) || ''
getItemOrEmpty(st, key) == IF key \in DOMAIN st THEN st[key] ELSE << >>

\* value === sessionStorage.getItem(key): null equals no string
itemEquals(st, key, value) == key \in DOMAIN st /\ st[key] = value

(***************************************************************************)
(* Page loads                                                              *)
(***************************************************************************)

\* the elements of index.html as the document is parsed: empty inputs and
\* empty message elements
IndexFresh ==
  /\ fullNameEl' = << >>
  /\ emailEl' = << >>
  /\ panEl' = << >>
  /\ loanAmountEl' = << >>
  /\ nameError' = ""
  /\ emailError' = ""
  /\ panError' = ""
  /\ amountError' = ""
  /\ amountWords' = << >>
  /\ emiInfo' = ""

\* the elements of confirm.html as the document is parsed, before the page
\* script has run; no listener, no timer
ConfirmFresh ==
  /\ messageBlock' = << >>
  /\ otpBlockDisplay' = ""
  /\ otpInput' = << >>
  /\ otpError' = ""
  /\ attemptsLeft' = << >>
  /\ resultClass' = ""
  /\ resultText' = ""
  /\ otp' = << >>
  /\ attempts' = 0
  /\ listener' = FALSE
  /\ timers' = << >>
  /\ wrongGuesses' = 0
  /\ replaced' = << >>

Init ==
  /\ page = "index"
  /\ href = ""
  /\ store = EmptyStore
  /\ fullNameEl = << >>
  /\ emailEl = << >>
  /\ panEl = << >>
  /\ loanAmountEl = << >>
  /\ nameError = ""
  /\ emailError = ""
  /\ panError = ""
  /\ amountError = ""
  /\ amountWords = << >>
  /\ emiInfo = ""
  /\ messageBlock = << >>
  /\ otpBlockDisplay = ""
  /\ otpInput = << >>
  /\ otpError = ""
  /\ attemptsLeft = << >>
  /\ resultClass = ""
  /\ resultText = ""
  /\ otp = << >>
  /\ attempts = 0
  /\ listener = FALSE
  /\ timers = << >>
  /\ wrongGuesses = 0
  /\ replaced = << >>
  /\ fnName = ""
  /\ fnArg = 0
  /\ fnResult = << >>

\* index.html is opened (again): its script only installs the two handlers
LoadIndex ==
  /\ page \in {"index", "confirm"}
  /\ page' = "index"
  /\ href' = ""
  /\ IndexFresh
  /\ ConfirmFresh
  /\ UNCHANGED <<store, fnVars>>

(***************************************************************************)
(* index.html: the form                                                    *)
(***************************************************************************)

\* the user edits a field that has no handler
TypeFullName(v) ==
  /\ page = "index"
  /\ fullNameEl' = v
  /\ UNCHANGED <<page, href, store, emailEl, panEl, loanAmountEl, nameError,
                 emailError, panError, amountError, amountWords, emiInfo,
                 confirmVars, fnVars>>

TypeEmail(v) ==
  /\ page = "index"
  /\ emailEl' = v
  /\ UNCHANGED <<page, href, store, fullNameEl, panEl, loanAmountEl, nameError,
                 emailError, panError, amountError, amountWords, emiInfo,
                 confirmVars, fnVars>>

TypePan(v) ==
  /\ page = "index"
  /\ panEl' = v
  /\ UNCHANGED <<page, href, store, fullNameEl, emailEl, loanAmountEl, nameError,
                 emailError, panError, amountError, amountWords, emiInfo,
                 confirmVars, fnVars>>

\* the 'input' handler of loanAmountEl, run with the field holding raw.
\* numberToWordsIndian does not throw on the value of parseInt, so the
\* catch block is not entered.
InputLoanAmount(raw) ==
  /\ page = "index"
  /\ LET val == StripNonDigits(raw)
     IN  /\ loanAmountEl' = val
         /\ emiInfo' = ""
         /\ IF val = << >>
            THEN amountWords' = << >> /\ amountError' = ""
            ELSE IF isValidAmount(val)
                 THEN /\ amountWords' = numberToWordsIndian(ParseInt(val))
                      /\ amountError' = ""
                 ELSE /\ amountWords' = << >>
                      /\ amountError' = AmountInputMsg
  /\ UNCHANGED <<page, href, store, fullNameEl, emailEl, panEl, nameError,
                 emailError, panError, confirmVars, fnVars>>

\* let ok = true; ... ok = false on each failed check
FormOkNoAmount(fullName, email, pan, loanAmount) ==
  /\ isValidFullName(fullName)
  /\ isValidEmail(email)
  /\ isValidPAN(pan)

FormOk(fullName, email, pan, loanAmount) ==
  /\ isValidFullName(fullName)
  /\ isValidEmail(email)
  /\ isValidPAN(pan)
  /\ isValidAmount(loanAmount)

\* the four sessionStorage.setItem calls
WriteHandoffNoAmount(st, fullName, email, pan, loanAmount) ==
  setItem(setItem(setItem(st, "loan_fullName", fullName),
                  "loan_email", email), "loan_pan", pan)

WriteHandoff(st, fullName, email, pan, loanAmount) ==
  setItem(setItem(setItem(setItem(st, "loan_fullName", fullName),
                          "loan_email", email), "loan_pan", pan),
          "loan_amount", loanAmount)

\* the 'submit' handler of the form
SubmitForm ==
  /\ page = "index"
  /\ LET fullName == Trim(fullNameEl)
         email == Trim(emailEl)
         pan == ToUpperCase(Trim(panEl))
         loanAmount == Trim(loanAmountEl)
     IN  /\ nameError' = IF ~isValidFullName(fullName) THEN NameMsg ELSE nameError
         /\ emailError' = IF ~isValidEmail(email) THEN EmailMsg ELSE emailError
         /\ panError' = IF ~isValidPAN(pan) THEN PanMsg ELSE panError
         /\ amountError' = IF ~isValidAmount(loanAmount)
                           THEN AmountSubmitMsg ELSE amountError
         /\ IF FormOk(fullName, email, pan, loanAmount)
            THEN /\ store' = WriteHandoff(store, fullName, email, pan, loanAmount)
                 /\ href' = ConfirmUrl
            ELSE UNCHANGED <<store, href>>
  /\ UNCHANGED <<page, fullNameEl, emailEl, panEl, loanAmountEl, amountWords,
                 emiInfo, confirmVars, fnVars>>

(***************************************************************************)
(* confirm.html: the OTP challenge                                         *)
(***************************************************************************)

\* !fullName || !email
DataMissing(fullName, email) == fullName = << >> \/ email = << >>

\* Math.floor(Math.random() * 9000), without the 1000
GenerateOtpNoOffset(r) == (r[1] * 9000) \div r[2]

\* Math.floor(1000 + Math.random() * 9000), Math.random() = r[1] / r[2]
GenerateOtp(r) == 1000 + ((r[1] * 9000) \div r[2])

\* the template literal `Attempts left: ${n}`
AttemptsLeftText(n) == <<"Attempts left: ", n>>

\* the page script keeping the attempts counted so far
StartChallengeNoReset(r, fullName, email, display) ==
  /\ messageBlock' = <<"greeting", SplitWhitespace(Trim(fullName))[1], email>>
  /\ otp' = NumToString(GenerateOtp(r))
  /\ store' = setItem(store, "loan_otp", otp')
  /\ attempts' = attempts
  /\ attemptsLeft' = AttemptsLeftText(maxAttempts - attempts)
  /\ listener' = TRUE
  /\ otpBlockDisplay' = display
  /\ otpInput' = << >>
  /\ otpError' = ""
  /\ resultClass' = ""
  /\ resultText' = ""
  /\ timers' = << >>
  /\ wrongGuesses' = 0

\* the page script from the greeting on: greeting, code, counter, listener
StartChallenge(r, fullName, email, display) ==
  /\ messageBlock' = <<"greeting", SplitWhitespace(Trim(fullName))[1], email>>
  /\ otp' = NumToString(GenerateOtp(r))
  /\ store' = setItem(store, "loan_otp", otp')
  /\ attempts' = 0
  /\ attemptsLeft' = AttemptsLeftText(maxAttempts - 0)
  /\ listener' = TRUE
  /\ otpBlockDisplay' = display
  /\ otpInput' = << >>
  /\ otpError' = ""
  /\ resultClass' = ""
  /\ resultText' = ""
  /\ timers' = << >>
  /\ wrongGuesses' = 0

\* the early return of the page script on missing handoff data
ShowMissing ==
  /\ messageBlock' = <<"missing">>
  /\ otpBlockDisplay' = "none"
  /\ otpInput' = << >>
  /\ otpError' = ""
  /\ attemptsLeft' = << >>
  /\ resultClass' = ""
  /\ resultText' = ""
  /\ otp' = << >>
  /\ attempts' = 0
  /\ listener' = FALSE
  /\ timers' = << >>
  /\ wrongGuesses' = 0
  /\ UNCHANGED store

\* the page script without the return of its missing-data branch
ConfirmScriptNoReturn(r) ==
  LET fullName == getItemOrEmpty(store, "loan_fullName")
      email == getItemOrEmpty(store, "loan_email")
  IN  StartChallenge(r, fullName, email,
                     IF DataMissing(fullName, email) THEN "none" ELSE "")

\* the confirm.html branch of the page script, with Math.random() = r
ConfirmScript(r) ==
  LET fullName == getItemOrEmpty(store, "loan_fullName")
      email == getItemOrEmpty(store, "loan_email")
  IN  IF DataMissing(fullName, email)
      THEN ShowMissing
      ELSE StartChallenge(r, fullName, email, "")

\* the state of the challenge, read off the page: the last terminal branch
\* the click handler took, if any
ChallengeState ==
  IF resultClass = SuccessClass THEN "Succeeded"
  ELSE IF resultClass = FailClass THEN "Failed"
  ELSE IF listener THEN "Active"
  ELSE "None"

\* confirm.html is loaded: after a submit, opened directly, or reloaded.
\* replaced notes the challenge the load did away with, if it was a reload:
\* its state, its attempts and whether a navigation was pending; the note
\* is dropped at the first event on the new page.
LoadConfirm ==
  /\ page \in {"index", "confirm"}
  /\ page' = "confirm"
  /\ href' = ""
  /\ IndexFresh
  /\ \E r \in RandomSamples : ConfirmScript(r)
  /\ replaced' = IF page = "confirm"
                 THEN <<ChallengeState, attempts, timers # << >> >>
                 ELSE << >>
  /\ UNCHANGED fnVars

\* what the user can put into otpInput: every code the page can generate,
\* one of them padded, a code never generated, and malformed entries
Guesses ==
  {NumToString(GenerateOtp(r)) : r \in RandomSamples}
    \cup {<<" ">> \o NumToString(GenerateOtp(<<0, 1>>)) \o <<" ">>}
    \cup {<<"0","0","0","0">>, <<"1","2","3">>, <<"1","2","a","4">>}

\* the user edits otpInput, which has no handler
TypeOtp(v) ==
  /\ page = "confirm"
  /\ otpInput' = v
  /\ replaced' = << >>
  /\ UNCHANGED <<page, href, store, indexVars, messageBlock, otpBlockDisplay,
                 otpError, attemptsLeft, resultClass, resultText, otp, attempts,
                 listener, timers, wrongGuesses, fnVars>>

\* /^\d+$/
IsDigitsOnly(entered) ==
  /\ entered # << >>
  /\ \A k \in DOMAIN entered : IsDigit(entered[k])

\* /^\d{4}$/
IsFourDigits(entered) ==
  /\ Len(entered) = 4
  /\ \A k \in DOMAIN entered : IsDigit(entered[k])

\* the branch taken with the budget tested before the code
OtpOutcomeBudgetFirst(entered, st, n) ==
  IF n >= maxAttempts THEN "fail"
  ELSE IF itemEquals(st, "loan_otp", entered) THEN "success"
  ELSE "retry"

\* the branch the click handler takes once attempts has been incremented to n
OtpOutcome(entered, st, n) ==
  IF itemEquals(st, "loan_otp", entered) THEN "success"
  ELSE IF n >= maxAttempts THEN "fail"
  ELSE "retry"

\* the 'click' handler of validateBtn; it stays installed until the page is
\* left, whatever otpBlock's display is
ValidateClick ==
  /\ page = "confirm"
  /\ listener
  /\ attempts < MaxClicks
  /\ replaced' = << >>
  /\ LET entered == Trim(otpInput)
     IN  IF ~IsFourDigits(entered)
         THEN /\ otpError' = OtpFormatMsg
              /\ resultText' = ""
              /\ UNCHANGED <<otpBlockDisplay, otpInput, attemptsLeft, resultClass,
                             attempts, timers, wrongGuesses>>
         ELSE LET n == attempts + 1
                  outcome == OtpOutcome(entered, store, n)
              IN  /\ attempts' = n
                  /\ CASE outcome = "success" ->
                            /\ otpBlockDisplay' = "none"
                            /\ resultClass' = SuccessClass
                            /\ resultText' = SuccessText
                            /\ timers' = Append(timers, HomeUrl)
                            /\ otpError' = ""
                            /\ UNCHANGED <<otpInput, attemptsLeft, wrongGuesses>>
                       [] outcome = "fail" ->
                            /\ otpBlockDisplay' = "none"
                            /\ resultClass' = FailClass
                            /\ resultText' = FailText
                            /\ timers' = Append(timers, NotFoundUrl)
                            /\ otpError' = ""
                            /\ wrongGuesses' = wrongGuesses + 1
                            /\ UNCHANGED <<otpInput, attemptsLeft>>
                       [] OTHER ->
                            /\ otpError' = OtpIncorrectMsg
                            /\ attemptsLeft' = AttemptsLeftText(maxAttempts - n)
                            /\ otpInput' = << >>
                            /\ resultText' = ""
                            /\ wrongGuesses' = wrongGuesses + 1
                            /\ UNCHANGED <<otpBlockDisplay, resultClass, timers>>
  /\ UNCHANGED <<page, href, store, indexVars, messageBlock, otp, listener,
                 fnVars>>

\* the oldest pending setTimeout callback runs: window.location.href = target
TimerFire ==
  /\ page = "confirm"
  /\ timers # << >>
  /\ href' = Head(timers)
  /\ timers' = Tail(timers)
  /\ replaced' = << >>
  /\ UNCHANGED <<page, store, indexVars, messageBlock, otpBlockDisplay, otpInput,
                 otpError, attemptsLeft, resultClass, resultText, otp, attempts,
                 listener, wrongGuesses, fnVars>>

\* the navigation to the assigned external address completes; the page, its
\* listener and its timers are gone, sessionStorage stays
LeavePage ==
  /\ page = "confirm"
  /\ href \in {HomeUrl, NotFoundUrl}
  /\ page' = "external"
  /\ ConfirmFresh
  /\ UNCHANGED <<href, store, indexVars, fnVars>>

Next ==
  \/ LoadIndex
  \/ \E v \in NameInputs : TypeFullName(v)
  \/ \E v \in EmailInputs : TypeEmail(v)
  \/ \E v \in PanInputs : TypePan(v)
  \/ \E raw \in AmountInputs : InputLoanAmount(raw)
  \/ SubmitForm
  \/ LoadConfirm
  \/ \E v \in Guesses : TypeOtp(v)
  \/ ValidateClick
  \/ TimerFire
  \/ LeavePage

Spec == Init /\ [][Next]_vars

(***************************************************************************)
(* The pure functions called directly                                      *)
(***************************************************************************)

\* numberToWordsIndian is applied to every integer up to this magnitude
MaxWordNum == 1100

\* values of one group: none, a unit, a teen, a round ten, a ten with a
\* unit, and the largest of two digits
GroupSamples == {0, 1, 19, 20, 47, 99}

\* and to these: the group boundaries, the examples of the documentation,
\* the largest amount isValidAmount accepts
WordSamples ==
  {100, 999, 1000, 1001, 99999, 100000, 1234567, 9999999, 10000000,
   10000001, 120034005, 999999999}

\* every combination of sampled groups: crore, lakh, thousand, hundreds
GroupCombinations ==
  {a * 10000000 + b * 100000 + c * 1000 + d :
     a \in GroupSamples, b \in GroupSamples, c \in GroupSamples,
     d \in {0, 5, 110, 999}}

WordInputs ==
  (-MaxWordNum..MaxWordNum) \cup WordSamples \cup {-n : n \in WordSamples}
    \cup GroupCombinations

\* every string of the alphabet up to the length n
StringsUpTo(alphabet, n) == UNION {[1..k -> alphabet] : k \in 0..n}

\* isValidEmail is applied to every string up to this length over a letter,
\* the two separators and a space
MaxEmailLen == 5

EmailAlphabet == {"a", "@", ".", " "}

EmailSamples ==
  {<<"a","@","b",".","c","o">>, <<"a","@","b",".","c","@","d">>,
   <<"a",".","b","@","c",".","d",".","e">>, <<"a","@","b","\t",".","c">>,
   <<"a","@","b","@","c",".","d">>}

EmailCallInputs == StringsUpTo(EmailAlphabet, MaxEmailLen) \cup EmailSamples

\* isValidFullName is applied to every string up to this length over a
\* letter, a space and a digit
MaxNameLen == 9

NameAlphabet == {"a", " ", "1"}

NameSamples ==
  {<<"J","o","h","n"," ","S","m","i","t","h">>, <<"J","o"," ","A","n","n">>,
   <<"\t"," ","\t">>, <<"\t","M","a","r","y","\t"," ","J","o","n","e","s"," ">>,
   <<"A","n","n","a"," ","M","a","r","y"," ","L","e","e">>,
   <<"J","o","h","n","-","S","m","i","t","h">>}

NameCallInputs == StringsUpTo(NameAlphabet, MaxNameLen) \cup NameSamples

\* isValidAmount is applied to every string up to this length over a digit
\* and a letter
MaxAmountLen == 10

AmountAlphabet == {"1", "a"}

AmountSamples ==
  {<<"1","2","3","4","5","6","7","8","9">>,
   <<"1","2","3","4","5","6","7","8","9","0">>,
   <<"1","2","a">>, <<"-","5">>, <<"+","5">>, <<"1",".","5">>,
   <<"1"," ","5">>, <<" ","5">>, <<"5"," ">>, <<"0">>,
   <<"0","0","0","0","0","0","0","0","0","0">>}

AmountCallInputs == StringsUpTo(AmountAlphabet, MaxAmountLen) \cup AmountSamples

\* isValidPAN is applied to every string up to this length over an uppercase
\* letter and a digit
MaxPanLen == 11

PanAlphabet == {"A", "1"}

PanSamples ==
  {<<"A","B","C","D","E","1","2","3","4","F">>,
   <<"a","B","C","D","E","1","2","3","4","F">>,
   <<"A","B","C","D","E","1","2","3","4","f">>,
   <<"a","b","c","d","e","1","2","3","4","f">>,
   <<"A","B","C","D","E","1","2","3","4","F"," ">>,
   <<" ","A","B","C","D","E","1","2","3","4","F">>,
   <<"A","B","C","D","-","1","2","3","4","F">>,
   <<"Z","Z","Z","Z","Z","0","0","0","0","Z">>}

PanCallInputs == StringsUpTo(PanAlphabet, MaxPanLen) \cup PanSamples

\* principal, annual rate in tenths of a percent, tenure in years
EmiInputs ==
  {<<1000000, DefaultRateTenths, DefaultTenureYears>>,
   <<50000, DefaultRateTenths, DefaultTenureYears>>,
   <<999999999, DefaultRateTenths, DefaultTenureYears>>,
   <<1000000, 0, DefaultTenureYears>>,
   <<1000, 120, 1>>}

CallWords(n) ==
  /\ fnName = ""
  /\ fnName' = "numberToWordsIndian"
  /\ fnArg' = n
  /\ fnResult' = numberToWordsIndian(n)
  /\ UNCHANGED <<page, href, store, indexVars, confirmVars>>

CallEmail(s) ==
  /\ fnName = ""
  /\ fnName' = "isValidEmail"
  /\ fnArg' = s
  /\ fnResult' = isValidEmail(s)
  /\ UNCHANGED <<page, href, store, indexVars, confirmVars>>

CallFullName(s) ==
  /\ fnName = ""
  /\ fnName' = "isValidFullName"
  /\ fnArg' = s
  /\ fnResult' = isValidFullName(s)
  /\ UNCHANGED <<page, href, store, indexVars, confirmVars>>

CallAmount(s) ==
  /\ fnName = ""
  /\ fnName' = "isValidAmount"
  /\ fnArg' = s
  /\ fnResult' = isValidAmount(s)
  /\ UNCHANGED <<page, href, store, indexVars, confirmVars>>

CallPAN(s) ==
  /\ fnName = ""
  /\ fnName' = "isValidPAN"
  /\ fnArg' = s
  /\ fnResult' = isValidPAN(s)
  /\ UNCHANGED <<page, href, store, indexVars, confirmVars>>

CallEMI(a) ==
  /\ fnName = ""
  /\ fnName' = "calculateEMI"
  /\ fnArg' = a
  /\ fnResult' = calculateEMI(a[1], a[2], a[3])
  /\ UNCHANGED <<page, href, store, indexVars, confirmVars>>

FnNext ==
  \/ fnName = "" /\ \E n \in WordInputs : CallWords(n)
  \/ fnName = "" /\ \E s \in NameCallInputs : CallFullName(s)
  \/ fnName = "" /\ \E s \in EmailCallInputs : CallEmail(s)
  \/ fnName = "" /\ \E s \in AmountCallInputs : CallAmount(s)
  \/ fnName = "" /\ \E s \in PanCallInputs : CallPAN(s)
  \/ fnName = "" /\ \E a \in EmiInputs : CallEMI(a)

SpecFn == Init /\ [][FnNext]_vars

(***************************************************************************)
(* Properties                                                              *)
(***************************************************************************)

HandoffKeys == {"loan_fullName", "loan_email", "loan_pan", "loan_amount"}

\* the part of the store the form page hands over
Handoff(st) == [k \in HandoffKeys \cap DOMAIN st |-> st[k]]

\* a guess of exactly four digits once trimmed
WellFormed(v) ==
  LET e == Trim(v)
  IN  Len(e) = 4 /\ \A k \in 1..4 : e[k] \in DigitSet

EndsWith(s, suffix) ==
  /\ Len(s) >= Len(suffix)
  /\ SubSeq(s, Len(s) - Len(suffix) + 1, Len(s)) = suffix

RupeesDot == <<"R","u","p","e","e","s",".">>

\* C1: from Active(k) every well-formed incorrect submission consumes one
\* attempt, the first two prompting a retry and the third ending in Failed,
\* and Failed is never reached with fewer than 3 well-formed incorrect
\* submissions.
C1_Claim ==
  /\ [][(/\ ValidateClick
         /\ ChallengeState = "Active"
         /\ WellFormed(otpInput)
         /\ Trim(otpInput) # otp)
        => /\ attempts' = attempts + 1
           /\ attempts < 2 => /\ ChallengeState' = "Active"
                              /\ otpError' = OtpIncorrectMsg
           /\ attempts = 2 => ChallengeState' = "Failed"]_vars
  /\ [](ChallengeState = "Failed" => wrongGuesses >= 3)

\* C2: from Active(k), k in 0..2, a submission equal to the generated code
\* moves the challenge to Succeeded and schedules the homepage navigation,
\* also on the third attempt.
C2_CorrectSucceeds ==
  [][(/\ ValidateClick
      /\ ChallengeState = "Active"
      /\ attempts \in 0..2
      /\ Trim(otpInput) = otp)
     => /\ ChallengeState' = "Succeeded"
        /\ resultText' = SuccessText
        /\ otpBlockDisplay' = "none"
        /\ timers' = Append(timers, HomeUrl)]_vars

\* a correct third guess after two incorrect ones has succeeded
C2_Witness ==
  /\ ChallengeState = "Succeeded"
  /\ attempts = 3
  /\ wrongGuesses = 2
  /\ timers = <<HomeUrl>>

\* C3: a guess that is not exactly 4 digits after trimming gets the format
\* message and leaves the counter, the challenge state, the stored code, the
\* attempts-left display and the scheduled navigations as they were.
C3_MalformedNoPenalty ==
  [][(ValidateClick /\ ~WellFormed(otpInput))
     => /\ otpError' = OtpFormatMsg
        /\ attempts' = attempts
        /\ wrongGuesses' = wrongGuesses
        /\ ChallengeState' = ChallengeState
        /\ store' = store
        /\ otp' = otp
        /\ attemptsLeft' = attemptsLeft
        /\ timers' = timers
        /\ href' = href]_vars

\* a malformed guess was rejected after one attempt had been used
C3_Witness ==
  /\ otpError = OtpFormatMsg
  /\ ChallengeState = "Active"
  /\ attempts = 1
  /\ attemptsLeft = AttemptsLeftText(2)
  /\ ~WellFormed(otpInput)

\* C4: once Succeeded or Failed, no validate click changes the outcome or
\* the counter or schedules another navigation; at most one navigation is
\* ever scheduled for one challenge.
C4_Claim ==
  [][(ValidateClick /\ ChallengeState \in {"Succeeded", "Failed"})
     => /\ ChallengeState' = ChallengeState
        /\ attempts' = attempts
        /\ timers' = timers]_vars

\* C5: the attempt counter stays within [0, maxAttempts].
C5_Claim == attempts \in 0..maxAttempts

\* C6: a load of the confirmation page without a non-empty full name and
\* email in the store creates no challenge: nothing is written to the store,
\* no code, no listener, no navigation, only the static message.
C6_MissingDataNoChallenge ==
  /\ [][(/\ LoadConfirm
         /\ \/ getItemOrEmpty(store, "loan_fullName") = << >>
            \/ getItemOrEmpty(store, "loan_email") = << >>)
        => /\ store' = store
           /\ otp' = << >>
           /\ ~listener'
           /\ timers' = << >>
           /\ messageBlock' = <<"missing">>
           /\ otpBlockDisplay' = "none"]_vars
  /\ []((/\ page = "confirm"
         /\ \/ getItemOrEmpty(store, "loan_fullName") = << >>
            \/ getItemOrEmpty(store, "loan_email") = << >>)
        => /\ "loan_otp" \notin DOMAIN store
           /\ ~listener
           /\ timers = << >>
           /\ href = ""
           /\ messageBlock = <<"missing">>)

\* the confirmation page was opened with an empty store
C6_Witness ==
  /\ page = "confirm"
  /\ store = EmptyStore
  /\ messageBlock = <<"missing">>
  /\ otpBlockDisplay = "none"

\* C7: a submit writes the four fields and navigates exactly when the
\* trimmed name, trimmed email, trimmed upper-cased PAN and trimmed amount
\* pass their validators, and otherwise leaves store and location alone;
\* every handoff value in the store passes its validator.
C7_SubmitIffValid ==
  /\ [][SubmitForm
        => IF /\ isValidFullName(Trim(fullNameEl))
              /\ isValidEmail(Trim(emailEl))
              /\ isValidPAN(ToUpperCase(Trim(panEl)))
              /\ isValidAmount(Trim(loanAmountEl))
           THEN /\ HandoffKeys \subseteq DOMAIN store'
                /\ store'["loan_fullName"] = Trim(fullNameEl)
                /\ store'["loan_email"] = Trim(emailEl)
                /\ store'["loan_pan"] = ToUpperCase(Trim(panEl))
                /\ store'["loan_amount"] = Trim(loanAmountEl)
                /\ href' = ConfirmUrl
           ELSE store' = store /\ href' = href]_vars
  /\ [](/\ "loan_fullName" \in DOMAIN store => isValidFullName(store["loan_fullName"])
        /\ "loan_email" \in DOMAIN store => isValidEmail(store["loan_email"])
        /\ "loan_pan" \in DOMAIN store => isValidPAN(store["loan_pan"])
        /\ "loan_amount" \in DOMAIN store => isValidAmount(store["loan_amount"]))

\* a submit was rejected for its name and a later one accepted
C7_Witness ==
  /\ page = "index"
  /\ href = ConfirmUrl
  /\ nameError = NameMsg
  /\ HandoffKeys \subseteq DOMAIN store
  /\ store["loan_pan"] = ToUpperCase(PanLower)

\* C8: the four fields of one submit are written together, in the step that
\* assigns the confirmation page as location; the store never holds only
\* some of them.
C8_HandoffAtomic ==
  /\ [][Handoff(store') # Handoff(store)
        => /\ page = "index"
           /\ HandoffKeys \subseteq DOMAIN store'
           /\ store'["loan_fullName"] = Trim(fullNameEl)
           /\ store'["loan_email"] = Trim(emailEl)
           /\ store'["loan_pan"] = ToUpperCase(Trim(panEl))
           /\ store'["loan_amount"] = Trim(loanAmountEl)
           /\ href' = ConfirmUrl]_vars
  /\ [][(page = "index" /\ href' = ConfirmUrl)
        => HandoffKeys \subseteq DOMAIN store']_vars
  /\ [](HandoffKeys \cap DOMAIN store = {} \/ HandoffKeys \subseteq DOMAIN store)

\* the confirmation page was entered after a submit and holds a challenge
C8_Witness ==
  /\ page = "confirm"
  /\ listener
  /\ HandoffKeys \subseteq DOMAIN store
  /\ store["loan_amount"] = StripNonDigits(AmtComma)

\* C9: the page is only ever sent to the homepage in state Succeeded and to
\* the not-found address in state Failed, never before a terminal state and
\* never to the target of the other outcome.
C9_Claim ==
  [][(page = "confirm" /\ href' # href /\ href' \in {HomeUrl, NotFoundUrl})
     => /\ href' = HomeUrl => ChallengeState = "Succeeded"
        /\ href' = NotFoundUrl => ChallengeState = "Failed"]_vars

\* C10 as stated: for every integer, zero included, numberToWordsIndian
\* returns a string that ends in "Rupees." with the period.
C10_Claim ==
  fnName = "numberToWordsIndian" => EndsWith(fnResult, RupeesDot)

\* C10, amended: for every non-zero integer, positive or negative,
\* numberToWordsIndian returns a string that ends in "Rupees." with the
\* period; for zero it returns "Zero Rupees" without one.
C10_NonZeroEndsInRupeesDot ==
  fnName = "numberToWordsIndian"
    => IF fnArg = 0
       THEN fnResult = <<"Z","e","r","o"," ","R","u","p","e","e","s">>
       ELSE EndsWith(fnResult, RupeesDot)

\* the function was applied to a negative number and to more than one group
C10_Witness ==
  /\ fnName = "numberToWordsIndian"
  /\ fnArg < -100000
  /\ EndsWith(fnResult, RupeesDot)
  /\ SubSeq(fnResult, 1, 6) = <<"M","i","n","u","s"," ">>


(***************************************************************************)
(* C11: the reference rendering, built as a list of words                  *)
(***************************************************************************)

RefUnits ==
  <<"One", "Two", "Three", "Four", "Five", "Six", "Seven", "Eight", "Nine",
    "Ten", "Eleven", "Twelve", "Thirteen", "Fourteen", "Fifteen", "Sixteen",
    "Seventeen", "Eighteen", "Nineteen">>

RefTens ==
  <<"Twenty", "Thirty", "Forty", "Fifty", "Sixty", "Seventy", "Eighty",
    "Ninety">>

\* the words of a value in 0..99
RefTwoDigits(n) ==
  IF n = 0 THEN << >>
  ELSE IF n <= 19 THEN << RefUnits[n] >>
  ELSE << RefTens[(n \div 10) - 1] >>
         \o (IF n % 10 = 0 THEN << >> ELSE << RefUnits[n % 10] >>)

\* the words of a value in 0..999
RefThreeDigits(n) ==
  (IF n >= 100 THEN << RefUnits[n \div 100], "Hundred" >> ELSE << >>)
    \o RefTwoDigits(n % 100)

\* the words of a group followed by its unit word, nothing for a zero group
RefGroup(value, unit) ==
  IF value = 0 THEN << >>
  ELSE RefThreeDigits(value) \o (IF unit = "" THEN << >> ELSE << unit >>)

\* the words of the magnitude m >= 1, "Rupees." last
RefWords(m) ==
  RefGroup(m \div 10000000, "Crore")
    \o RefGroup((m % 10000000) \div 100000, "Lakh")
    \o RefGroup((m % 100000) \div 1000, "Thousand")
    \o RefGroup(m % 1000, "")
    \o << "Rupees." >>

\* the words of a character string: its maximal runs of characters other
\* than the space, an empty word where two spaces meet or a space is first
\* or last
RECURSIVE WordsOfChars(_, _)
WordsOfChars(s, cur) ==
  IF s = << >> THEN << cur >>
  ELSE IF Head(s) = " " THEN << cur >> \o WordsOfChars(Tail(s), "")
  ELSE WordsOfChars(Tail(s), cur \o Head(s))

\* C11: for 1 <= |n| <= 999,999,999 numberToWordsIndian(n) is the reference
\* rendering: the non-zero groups in the order crore, lakh, thousand,
\* hundreds, each with its unit word, single spaces between all words,
\* "Rupees." last and "Minus" first when n < 0; so no double, leading or
\* trailing space and no empty or undefined word.
C11_MatchesReference ==
  (fnName = "numberToWordsIndian" /\ fnArg # 0)
    => /\ WordsOfChars(fnResult, "")
            = (IF fnArg < 0 THEN << "Minus" >> ELSE << >>)
                \o RefWords(IF fnArg < 0 THEN -fnArg ELSE fnArg)
       /\ \A k \in DOMAIN WordsOfChars(fnResult, "") :
            WordsOfChars(fnResult, "")[k] \notin {"", "undefined"}
       /\ fnArg = 100000
            => WordsOfChars(fnResult, "") = <<"One", "Lakh", "Rupees.">>
       /\ fnArg = 1234567
            => WordsOfChars(fnResult, "")
                 = <<"Twelve", "Lakh", "Thirty", "Four", "Thousand", "Five",
                     "Hundred", "Sixty", "Seven", "Rupees.">>
       /\ fnArg = -50
            => WordsOfChars(fnResult, "") = <<"Minus", "Fifty", "Rupees.">>

\* the function was applied to a number with all four groups non-zero
C11_Witness ==
  /\ fnName = "numberToWordsIndian"
  /\ fnArg = 470199110
  /\ WordsOfChars(fnResult, "")
       = <<"Forty", "Seven", "Crore", "One", "Lakh", "Ninety", "Nine",
           "Thousand", "One", "Hundred", "Ten", "Rupees.">>


\* the positions of character c in s
PositionsOf(s, c) == {k \in DOMAIN s : s[k] = c}

\* C12 as stated: isValidEmail(s) holds exactly when s is one or more
\* characters that are neither whitespace nor '@', then '@', then one or more
\* such characters, then '.', then one or more characters that are not
\* whitespace, '@' allowed among these last.
C12_Claim ==
  fnName = "isValidEmail"
    => (fnResult
          <=> \E i \in DOMAIN fnArg : \E j \in DOMAIN fnArg :
                /\ fnArg[i] = "@"
                /\ fnArg[j] = "."
                /\ 1 < i /\ i + 1 < j /\ j < Len(fnArg)
                /\ \A k \in 1..(j - 1) :
                     k # i => fnArg[k] \notin {" ", "\t", "@"}
                /\ \A k \in (j + 1)..Len(fnArg) : fnArg[k] \notin {" ", "\t"})

\* C12, amended: isValidEmail(s) holds exactly when s has no whitespace and
\* exactly one '@', which is not its first character, and a '.' follows
\* the '@' with at least one character between them and at least one after
\* it; the last segment cannot contain '@' either.
C12_OneAtThenDot ==
  fnName = "isValidEmail"
    => (fnResult
          <=> /\ \A k \in DOMAIN fnArg : fnArg[k] \notin {" ", "\t"}
              /\ Cardinality(PositionsOf(fnArg, "@")) = 1
              /\ \E i \in PositionsOf(fnArg, "@") :
                   /\ i > 1
                   /\ \E j \in PositionsOf(fnArg, ".") :
                        i + 1 < j /\ j < Len(fnArg))

\* the function rejected a string whose last segment holds an '@'
C12_Witness ==
  /\ fnName = "isValidEmail"
  /\ fnArg = <<"a","@","a",".","@">>
  /\ fnResult = FALSE


AsciiLetters ==
  {"A","B","C","D","E","F","G","H","I","J","K","L","M",
   "N","O","P","Q","R","S","T","U","V","W","X","Y","Z",
   "a","b","c","d","e","f","g","h","i","j","k","l","m",
   "n","o","p","q","r","s","t","u","v","w","x","y","z"}

\* the positions at which a word of s begins
WordStarts(s) ==
  {k \in DOMAIN s :
     s[k] \notin {" ", "\t"} /\ (k = 1 \/ s[k - 1] \in {" ", "\t"})}

\* C13: isValidFullName(s) holds exactly when s holds only ASCII letters and
\* whitespace and has at least 2 words, each of at least 4 characters; it is
\* false for the empty and the whitespace-only string, true for
\* "John Smith" and false for "Jo Ann".
C13_TwoWordsOfFour ==
  fnName = "isValidFullName"
    => /\ fnResult \in BOOLEAN
       /\ fnResult
            <=> /\ \A k \in DOMAIN fnArg :
                     fnArg[k] \in AsciiLetters \cup {" ", "\t"}
                /\ Cardinality(WordStarts(fnArg)) >= 2
                /\ \A k \in WordStarts(fnArg) : \A d \in 0..3 :
                     k + d <= Len(fnArg) /\ fnArg[k + d] \notin {" ", "\t"}
       /\ WordStarts(fnArg) = {} => ~fnResult
       /\ fnArg = <<"J","o","h","n"," ","S","m","i","t","h">> => fnResult
       /\ fnArg = <<"J","o"," ","A","n","n">> => ~fnResult

\* the function accepted a padded name of two words of four letters
C13_Witness ==
  /\ fnName = "isValidFullName"
  /\ fnArg = <<"a","a","a","a"," ","a","a","a","a">>
  /\ fnResult = TRUE


AsciiDigits == {"0","1","2","3","4","5","6","7","8","9"}

AsciiUpper ==
  {"A","B","C","D","E","F","G","H","I","J","K","L","M",
   "N","O","P","Q","R","S","T","U","V","W","X","Y","Z"}

\* C14: isValidAmount(s) holds exactly when s is non-empty, holds only
\* digits and is at most 9 characters long; the 9-digit sample is accepted,
\* the 10-digit one rejected, and "12a" rejected.
C14_DigitsUpToNine ==
  fnName = "isValidAmount"
    => /\ fnResult \in BOOLEAN
       /\ fnResult
            <=> /\ Len(fnArg) >= 1
                /\ Len(fnArg) <= 9
                /\ \A k \in DOMAIN fnArg : fnArg[k] \in AsciiDigits
       /\ fnArg = <<"1","2","3","4","5","6","7","8","9">> => fnResult
       /\ fnArg = <<"1","2","3","4","5","6","7","8","9","0">> => ~fnResult
       /\ fnArg = <<"1","2","a">> => ~fnResult
       /\ (\E k \in DOMAIN fnArg : fnArg[k] \in {"-", "+", ".", " ", "a"})
            => ~fnResult

\* the function accepted the 9-digit amount
C14_Witness ==
  /\ fnName = "isValidAmount"
  /\ fnArg = <<"1","2","3","4","5","6","7","8","9">>
  /\ fnResult = TRUE

\* C15: isValidPAN(s) holds exactly when s is 10 characters long: 5
\* uppercase letters, then 4 digits, then 1 uppercase letter.
C15_FixedLayout ==
  fnName = "isValidPAN"
    => /\ fnResult \in BOOLEAN
       /\ fnResult
            <=> /\ Len(fnArg) = 10
                /\ \A k \in DOMAIN fnArg :
                     IF k \in 6..9 THEN fnArg[k] \in AsciiDigits
                                   ELSE fnArg[k] \in AsciiUpper

\* the function accepted a string of the layout
C15_Witness ==
  /\ fnName = "isValidPAN"
  /\ fnArg = <<"A","B","C","D","E","1","2","3","4","F">>
  /\ fnResult = TRUE


\* C16: after every loan-amount input event that leaves a non-empty valid
\* amount in the field, the EMI estimate text is shown on the form page.
C16_Claim ==
  [][(/\ \E raw \in AmountInputs : InputLoanAmount(raw)
      /\ loanAmountEl' # << >>
      /\ isValidAmount(loanAmountEl'))
       => emiInfo' # ""]_vars


\* << s, a^n, d^n >> where s is the value after n months of 1 paid at the
\* end of each month, over d^(n-1): the sum of a^k * d^(n-1-k) for k < n
RECURSIVE Schedule(_, _, _)
Schedule(a, d, n) ==
  IF n = 0 THEN << << >>, << 1 >>, << 1 >> >>
  ELSE LET half == Schedule(a, d, n \div 2)
           sum == BigTimes(half[1], BigAdd(half[2], half[3]))
           powA == BigTimes(half[2], half[2])
           powD == BigTimes(half[3], half[3])
       IN  IF n % 2 = 1
           THEN << BigAdd(BigMul(sum, a), powD), BigMul(powA, a),
                   BigMul(powD, d) >>
           ELSE << sum, powA, powD >>

\* e paise a month repay at most the principal P with its interest, and
\* e + 1 paise a month repay more
ClosesSchedule(P, tenths, years, e) ==
  LET s == Schedule(12000 + tenths, 12000, years * 12)
      due == BigMul(BigMul(s[2], 100), P)
      paidPerPaisa == BigMul(s[1], 12000)
  IN  /\ ~BigLess(due, BigMul(paidPerPaisa, e))
      /\ BigLess(due, BigMul(paidPerPaisa, e + 1))

\* C17 as stated: calculateEMI(1000000, 8.5, 15) rounds to 9849.
C17_Claim ==
  (fnName = "calculateEMI"
     /\ fnArg = <<1000000, DefaultRateTenths, DefaultTenureYears>>)
    => MathRound(fnResult) = 9849

\* C17: calculateEMI(1000000, 8.5, 15) rounds to 9847, and the value the
\* formula gives for a positive rate is the monthly payment that closes the
\* repayment schedule, to the paisa.
C17_RoundsTo9847 ==
  fnName = "calculateEMI"
    => /\ fnArg = <<1000000, DefaultRateTenths, DefaultTenureYears>>
            => MathRound(fnResult) = 9847
       /\ fnArg[2] > 0
            => ClosesSchedule(fnArg[1], fnArg[2], fnArg[3], fnResult)
       /\ fnArg[2] = 0 => fnResult = (100 * fnArg[1]) \div (12 * fnArg[3])

\* the function was applied to the spec's example
C17_Witness ==
  /\ fnName = "calculateEMI"
  /\ fnArg = <<1000000, DefaultRateTenths, DefaultTenureYears>>
  /\ fnResult = 984739


\* C18: whenever a challenge exists, its code is a string of exactly 4
\* digits denoting an integer in 1000..9999, its first digit is not 0, it is
\* the stored code, and entered as a guess it passes the format check and
\* is taken for the correct code.
C18_CodeIsFourDigits ==
  listener
    => /\ Len(otp) = 4
       /\ \A k \in DOMAIN otp : otp[k] \in AsciiDigits
       /\ otp[1] # "0"
       /\ ParseInt(otp) \in 1000..9999
       /\ itemEquals(store, "loan_otp", otp)
       /\ IsFourDigits(Trim(otp))
       /\ OtpOutcome(Trim(otp), store, attempts + 1) = "success"

\* a challenge whose code is the largest the generator gives
C18_Witness ==
  /\ listener
  /\ otp = <<"9","9","9","9">>


\* both handoff values the confirmation page reads are present
ValidHandoff(st) ==
  /\ getItemOrEmpty(st, "loan_fullName") # << >>
  /\ getItemOrEmpty(st, "loan_email") # << >>

\* C19: every load of the confirmation page with valid handoff data, a
\* reload in any state included, leaves one challenge: a code from the
\* generator, stored under loan_otp, state Active with 0 attempts used and
\* "Attempts left: 3" shown, no navigation pending; and no other step on
\* the confirmation page changes the code or sessionStorage.
C19_LoadStartsAfresh ==
  [][/\ (LoadConfirm /\ ValidHandoff(store))
          => /\ listener'
             /\ ChallengeState' = "Active"
             /\ attempts' = 0
             /\ attemptsLeft' = <<"Attempts left: ", 3>>
             /\ timers' = << >>
             /\ otpBlockDisplay' = ""
             /\ \E r \in RandomSamples : otp' = NumToString(GenerateOtp(r))
             /\ itemEquals(store', "loan_otp", otp')
             /\ \A key \in DOMAIN store : key # "loan_otp"
                  => key \in DOMAIN store' /\ store'[key] = store[key]
     /\ ((\E v \in Guesses : TypeOtp(v)) \/ ValidateClick \/ TimerFire)
          => store' = store /\ otp' = otp]_vars

\* a reload during the delay after the third wrong guess: the Failed
\* challenge and its pending navigation are gone, a fresh one is Active
C19_Witness ==
  /\ page = "confirm"
  /\ replaced = <<"Failed", 3, TRUE>>
  /\ ChallengeState = "Active"
  /\ attempts = 0
  /\ timers = << >>


\* C20: after a submit, the error message of a field (name, email, PAN) is
\* non-empty only if that field's value failed its validator on this submit.
C20_Claim ==
  [][SubmitForm
       => /\ nameError' # "" => ~isValidFullName(Trim(fullNameEl))
          /\ emailError' # "" => ~isValidEmail(Trim(emailEl))
          /\ panError' # "" => ~isValidPAN(ToUpperCase(Trim(panEl)))]_vars

====
